---------------------------- MODULE Spec2Model ----------------------------
(***************************************************************************)
(* Model of the Twitch live-status monitor of DiscordTwitchBot             *)
(* (twitch/twitch.go): the registry Session.twitchData, the process-wide   *)
(* guildStatus map, RegisterChannel / UnregisterChannel, the poll cycle of *)
(* monitorChannels, Close and the reload of the snapshot by New.           *)
(*                                                                         *)
(* time.Time is a natural number; 0 is the zero time (time.Time{}).        *)
(* A Go map is a function on the set of its keys; a Go slice is a          *)
(* sequence (Go index i is TLA+ index i + 1).                              *)
(***************************************************************************)
EXTENDS Integers, Sequences, FiniteSets, TLC

(***************************************************************************)
(* Bounds and input domains                                                *)
(***************************************************************************)
\* The clock starts at InitTime and ticks at most MaxTicks times.
MaxTicks == 2

\* The ticks of the clock in SpecSession.
SessionTicks == 4

\* constants.TwitchStateChangeTime: the debounce threshold, in clock ticks.
TwitchStateChangeTime == 1

\* Logins a command may name; TwitchUsers are those GetUsers knows.
TwitchUsers == {"alice", "bob"}
Logins == TwitchUsers \cup {"nobody"}

\* The logins of the runs that follow one streaming channel.
OneUser == {"alice"}
OneLogin == OneUser \cup {"nobody"}

\* Discord guilds and their chat channels (a chat channel lies in one guild).
Guilds == {"g1", "g2"}
ChannelsOf(g) == IF g = "g1" THEN {"c1", "c2"} ELSE {"c3"}
ChannelIDs == UNION {ChannelsOf(g) : g \in Guilds}

\* The (m.GuildID, m.ChannelID) pairs a command message can carry.
MessageKeys == {k \in Guilds \X ChannelIDs : k[2] \in ChannelsOf(k[1])}

ZeroTime == 0

\* The clock at start-up: late enough for a stream to have begun more than
\* TwitchStateChangeTime ago.
InitTime == TwitchStateChangeTime + 2

\* The snapshot file is a sequence: empty when the file does not exist
\* (os.ErrNotExist), else its one element is the file's content.
NotExist == << >>

(***************************************************************************)
(* Go maps                                                                 *)
(***************************************************************************)
EmptyMap == [x \in {} |-> TRUE]
MapPut(m, k, v) == [x \in (DOMAIN m) \cup {k} |-> IF x = k THEN v ELSE m[x]]
MapDelete(m, k) == [x \in (DOMAIN m) \ {k} |-> m[x]]

(***************************************************************************)
(* State                                                                   *)
(***************************************************************************)
VARIABLES
    twitchData,      \* Session.twitchData: login -> twitchChannelInfo
    guildStatus,     \* guildStatus: guild -> BOOLEAN (absent = key missing)
    isConnected,     \* Session.isConnected
    activeSessions,  \* TRUE iff the Session is in activeSessions (Monitor alive)
    disk,            \* the snapshot DataPath/name.gob: NotExist or <<content>>
    now,             \* time.Now()
    mainPc,          \* "Stopped" (no process), "Running", "Closed" (Close returned)
    cmd,             \* the command handlers in flight (fine-grained runs)
    lastOp,          \* history: the operation that made the last step, its result
    sent,            \* history: notifications dispatched by the last step
    liveRun,         \* history: subscriptions announced live in the current live run
    offRun,          \* history: subscriptions announced offline in the current offline run
    lastSent,        \* history: subscription -> kind of the last notification sent to it
    pruned           \* history: the subscriptions the last Close deleted

vars == <<twitchData, guildStatus, isConnected, activeSessions, disk, now,
          mainPc, cmd, lastOp, sent, liveRun, offRun, lastSent, pruned>>

(***************************************************************************)
(* Registry helpers                                                        *)
(***************************************************************************)
\* discordChannel{ChannelID, LiveNotificationSent}
discordChannel(d, b) == [ChannelID |-> d, LiveNotificationSent |-> b]

\* twitchChannelInfo as RegisterChannel creates it (times zero, empty map).
twitchChannelInfo == [StartTime |-> ZeroTime, EndTime |-> ZeroTime,
                      DiscordChannels |-> EmptyMap]

\* t.twitchData[tw].DiscordChannels[g]: a missing key reads as the nil slice.
DiscordChannelsOf(td, tw, g) ==
    IF tw \in DOMAIN td /\ g \in DOMAIN td[tw].DiscordChannels
    THEN td[tw].DiscordChannels[g]
    ELSE << >>

\* getChannelIdx giving up after the first entry of the list.
getChannelIdx_FirstOnly(td, tw, g, d) ==
    LET s == DiscordChannelsOf(td, tw, g)
    IN IF Len(s) > 0 /\ s[1].ChannelID = d THEN 0 ELSE -1

\* getChannelIdx without the comparison of the ChannelID.
getChannelIdx_AnyChannel(td, tw, g, d) ==
    IF Len(DiscordChannelsOf(td, tw, g)) > 0 THEN 0 ELSE -1

\* Session.getChannelIdx: the Go index of the first match, or -1.
getChannelIdx(td, tw, g, d) ==
    IF tw \notin DOMAIN td
    THEN -1
    ELSE LET s == DiscordChannelsOf(td, tw, g)
             hits == {i \in 1..Len(s) : s[i].ChannelID = d}
         IN IF hits = {} THEN -1
            ELSE (CHOOSE i \in hits : \A j \in hits : i <= j) - 1

\* remove: swap element i (Go index) with the last, drop the last.
remove(s, i) ==
    LET n == Len(s)
        swapped == [s EXCEPT ![n] = s[i + 1], ![i + 1] = s[n]]
    IN SubSeq(swapped, 1, n - 1)

\* The subscriptions of a registry, as <<login, guild, chat channel>> triples.
Subs(td) ==
    UNION {UNION {{<<tw, g, td[tw].DiscordChannels[g][i].ChannelID>> :
                      i \in 1..Len(td[tw].DiscordChannels[g])} :
                  g \in DOMAIN td[tw].DiscordChannels} :
           tw \in DOMAIN td}

\* How many entries of guild g's list under tw carry chat channel d.
CountOf(td, tw, g, d) ==
    Cardinality({i \in 1..Len(DiscordChannelsOf(td, tw, g)) :
                    DiscordChannelsOf(td, tw, g)[i].ChannelID = d})


(***************************************************************************)
(* The snapshot: encoding/gob omits a struct field that holds its zero     *)
(* value and the decoder leaves a missing field at the zero value of the   *)
(* fresh destination. An encoded struct is a function on the names of the  *)
(* fields that were sent. A non-nil map is sent even when it is empty.     *)
(***************************************************************************)
GobEncodeChannel(dc) ==
    [f \in {"ChannelID"} \cup
            (IF dc.LiveNotificationSent THEN {"LiveNotificationSent"} ELSE {}) |->
        IF f = "ChannelID" THEN dc.ChannelID ELSE TRUE]

\* A decoder that leaves every flag at the zero value.
GobDecodeChannel_NoFlag(e) ==
    [ChannelID |-> e["ChannelID"], LiveNotificationSent |-> FALSE]

GobDecodeChannel(e) ==
    [ChannelID |-> e["ChannelID"],
     LiveNotificationSent |-> "LiveNotificationSent" \in DOMAIN e]

GobEncodeInfo(tc) ==
    LET dcs == [g \in DOMAIN tc.DiscordChannels |->
                   [i \in 1..Len(tc.DiscordChannels[g]) |->
                       GobEncodeChannel(tc.DiscordChannels[g][i])]]
    IN [f \in {"DiscordChannels"} \cup
               (IF tc.StartTime # ZeroTime THEN {"StartTime"} ELSE {}) \cup
               (IF tc.EndTime # ZeroTime THEN {"EndTime"} ELSE {}) |->
           CASE f = "StartTime" -> tc.StartTime
             [] f = "EndTime" -> tc.EndTime
             [] OTHER -> dcs]

GobDecodeInfo(e) ==
    [StartTime |-> IF "StartTime" \in DOMAIN e THEN e["StartTime"] ELSE ZeroTime,
     EndTime |-> IF "EndTime" \in DOMAIN e THEN e["EndTime"] ELSE ZeroTime,
     DiscordChannels |->
        [g \in DOMAIN e["DiscordChannels"] |->
            [i \in 1..Len(e["DiscordChannels"][g]) |->
                GobDecodeChannel(e["DiscordChannels"][g][i])]]]

\* utils.WriteGobToDisk: the file that a successful whole-file write leaves.
WriteGobToDisk(td) == <<[tw \in DOMAIN td |-> GobEncodeInfo(td[tw])]>>

\* readGobFromDisk into the fresh map New made; a missing file leaves it empty.
readGobFromDisk(file) ==
    IF file = NotExist THEN EmptyMap
    ELSE [tw \in DOMAIN file[1] |-> GobDecodeInfo(file[1][tw])]

(***************************************************************************)
(* validateAndRefreshAuthToken: what ValidateToken and the refresh loop    *)
(* can answer.                                                             *)
(*   "valid"         the token is valid, status 200                        *)
(*   "error"         ValidateToken returned an error                       *)
(*   "badStatus"     valid, but resp.StatusCode # 200                      *)
(*   "refreshed"     invalid, GetAuthToken succeeded                       *)
(*   "refreshFailed" invalid, GetAuthToken failed                          *)
(***************************************************************************)
ValidateOutcomes == {"valid", "error", "badStatus", "refreshed", "refreshFailed"}

\* The value validateAndRefreshAuthToken returns.
validateAndRefreshAuthToken(vo) == vo \in {"valid", "refreshed"}

\* ts.isConnected after validateAndRefreshAuthToken.
ConnectedAfterValidate(vo, cur) ==
    CASE vo = "refreshed" -> TRUE
      [] vo = "refreshFailed" -> FALSE
      [] OTHER -> cur

(***************************************************************************)
(* RegisterChannel                                                         *)
(***************************************************************************)
\* client.GetUsers for one login: the user, no user, or an error (the
\* response of a failed call is read all the same, line 119).
UsersOutcomes(tw) ==
    IF tw \in TwitchUsers THEN {"found", "error"} ELSE {"none", "error"}

\* The first-time lookup creating the entry before it reads the users.
RegisterLookup_CreateFirst(td, tw, vo, uo) ==
    IF tw \in DOMAIN td THEN [td |-> td, err |-> "nil"]
    ELSE IF ~validateAndRefreshAuthToken(vo)
         THEN [td |-> td, err |-> "ErrInvalidToken"]
    ELSE IF uo = "error" THEN [td |-> td, err |-> "panic"]
    ELSE [td |-> MapPut(td, tw, twitchChannelInfo),
          err |-> IF uo = "none" THEN "ErrTwitchUserDoesNotExist" ELSE "nil"]

\* Lines 110-132: the first-time lookup. err = "nil" lets the call go on.
RegisterLookup(td, tw, vo, uo) ==
    IF tw \in DOMAIN td THEN [td |-> td, err |-> "nil"]
    ELSE IF ~validateAndRefreshAuthToken(vo)
         THEN [td |-> td, err |-> "ErrInvalidToken"]
    ELSE IF uo = "error" THEN [td |-> td, err |-> "panic"]
    ELSE IF uo = "none" THEN [td |-> td, err |-> "ErrTwitchUserDoesNotExist"]
    ELSE [td |-> MapPut(td, tw, twitchChannelInfo), err |-> "nil"]

\* Line 140: append a fresh discordChannel to guild g's list under tw.
AppendChannel(td, tw, g, d) ==
    [td EXCEPT ![tw].DiscordChannels =
        MapPut(@, g, Append(DiscordChannelsOf(td, tw, g), discordChannel(d, FALSE)))]

\* Lines 134-150: register unless getChannelIdx finds the key.
RegisterAppend(td, tw, g, d) ==
    IF getChannelIdx(td, tw, g, d) < 0
    THEN [td |-> AppendChannel(td, tw, g, d), err |-> "nil"]
    ELSE [td |-> td, err |-> "ErrTwitchUserRegistered"]

\* The whole call: the registry it leaves and the error it returns.
RegisterOutcome(td, tw, g, d, vo, uo) ==
    LET r == RegisterLookup(td, tw, vo, uo)
    IN IF r.err # "nil" THEN r ELSE RegisterAppend(r.td, tw, g, d)

(***************************************************************************)
(* UnregisterChannel                                                       *)
(***************************************************************************)
\* UnregisterChannel without the deletion of the emptied login (lines 188-191).
UnregisterAt_KeepLogin(td, tw, g, idx) ==
    LET rest == remove(td[tw].DiscordChannels[g], idx)
        dcs == IF Len(rest) = 0
               THEN MapDelete(td[tw].DiscordChannels, g)
               ELSE MapPut(td[tw].DiscordChannels, g, rest)
    IN [td EXCEPT ![tw].DiscordChannels = dcs]

\* Lines 180-191: remove entry idx, then drop an emptied guild and login.
UnregisterAt(td, tw, g, idx) ==
    LET rest == remove(td[tw].DiscordChannels[g], idx)
        dcs == IF Len(rest) = 0
               THEN MapDelete(td[tw].DiscordChannels, g)
               ELSE MapPut(td[tw].DiscordChannels, g, rest)
    IN IF DOMAIN dcs = {}
       THEN MapDelete(td, tw)
       ELSE [td EXCEPT ![tw].DiscordChannels = dcs]

\* The whole call: the registry it leaves and the value it returns.
UnregisterOutcome(td, tw, g, d) ==
    LET idx == getChannelIdx(td, tw, g, d)
    IN IF idx >= 0
       THEN [td |-> UnregisterAt(td, tw, g, idx), res |-> TRUE]
       ELSE [td |-> td, res |-> FALSE]

(***************************************************************************)
(* Close                                                                   *)
(***************************************************************************)
\* Close with the test of line 55 inverted.
ClosePrune_Inverted(td, gs) ==
    [tw \in DOMAIN td |->
        [td[tw] EXCEPT !.DiscordChannels =
            [g \in {x \in DOMAIN @ : ~(x \in DOMAIN gs /\ gs[x])} |-> @[g]]]]

\* Lines 53-59: for every guild with a status entry that is false, delete
\* the guild's key from every login's DiscordChannels.
ClosePrune(td, gs) ==
    [tw \in DOMAIN td |->
        [td[tw] EXCEPT !.DiscordChannels =
            [g \in {x \in DOMAIN @ : ~(x \in DOMAIN gs /\ ~gs[x])} |-> @[g]]]]

(***************************************************************************)
(* monitorChannels                                                         *)
(***************************************************************************)
\* The update stamping the end time on every cycle that finds no stream.
UpdateTimes_Restamp(td, live, t) ==
    [tw \in DOMAIN td |->
        IF tw \in DOMAIN live
        THEN [td[tw] EXCEPT !.StartTime = live[tw], !.EndTime = ZeroTime]
        ELSE [td[tw] EXCEPT !.StartTime = ZeroTime, !.EndTime = t]]

\* The update passing over the logins no cycle has stamped yet.
UpdateTimes_SkipUnseen(td, live, t) ==
    [tw \in DOMAIN td |->
        IF td[tw].StartTime = ZeroTime /\ td[tw].EndTime = ZeroTime THEN td[tw]
        ELSE IF tw \in DOMAIN live
        THEN [td[tw] EXCEPT !.StartTime = live[tw], !.EndTime = ZeroTime]
        ELSE [td[tw] EXCEPT !.StartTime = ZeroTime,
                            !.EndTime = IF @ = ZeroTime THEN t ELSE @]]

\* The update leaving the end time in place when it finds the stream.
UpdateTimes_KeepEnd(td, live, t) ==
    [tw \in DOMAIN td |->
        IF tw \in DOMAIN live
        THEN [td[tw] EXCEPT !.StartTime = live[tw]]
        ELSE [td[tw] EXCEPT !.StartTime = ZeroTime,
                            !.EndTime = IF @ = ZeroTime THEN t ELSE @]]

\* Lines 269-287: live is the function login -> StartedAt of the streams the
\* response reports with Type "live".
UpdateTimes(td, live, t) ==
    [tw \in DOMAIN td |->
        IF tw \in DOMAIN live
        THEN [td[tw] EXCEPT !.StartTime = live[tw], !.EndTime = ZeroTime]
        ELSE [td[tw] EXCEPT !.StartTime = ZeroTime,
                            !.EndTime = IF @ = ZeroTime THEN t ELSE @]]

\* Line 290.
ConfirmedLive(tc, t) ==
    tc.StartTime # ZeroTime /\ t - tc.StartTime > TwitchStateChangeTime

\* Line 305 (the else branch of line 290).
ConfirmedOffline(tc, t) ==
    /\ ~ConfirmedLive(tc, t)
    /\ tc.EndTime # ZeroTime /\ t - tc.EndTime > TwitchStateChangeTime

\* Lines 292 and 307 testing only that the guild has a status entry.
GuildConnected_AnyEntry(gs, g) == g \in DOMAIN gs

\* Lines 292 and 307: connected, available := guildStatus[guild].
GuildConnected(gs, g) == g \in DOMAIN gs /\ gs[g]

\* Lines 294 and 309: whether the loop flips this discordChannel's flag.
FlipsLive(dc) == ~dc.LiveNotificationSent
FlipsOffline(dc) == dc.LiveNotificationSent

\* Whether entry i of guild g's list under tw is flipped by the cycle.
Flipped(td, gs, t, tw, g, i) ==
    LET tc == td[tw]
        dc == tc.DiscordChannels[g][i]
    IN /\ GuildConnected(gs, g)
       /\ \/ ConfirmedLive(tc, t) /\ FlipsLive(dc)
          \/ ConfirmedOffline(tc, t) /\ FlipsOffline(dc)

\* Lines 289-321: the registry after the debounce step.
Debounce(td, gs, t) ==
    [tw \in DOMAIN td |->
        [td[tw] EXCEPT !.DiscordChannels =
            [g \in DOMAIN @ |->
                [i \in 1..Len(@[g]) |->
                    IF Flipped(td, gs, t, tw, g, i)
                    THEN [@[g][i] EXCEPT !.LiveNotificationSent =
                                             ConfirmedLive(td[tw], t)]
                    ELSE @[g][i]]]]]

\* The goroutines the debounce step launches (lines 296 and 311), each named
\* by the subscription whose flag it flipped.
Dispatched(td, gs, t) ==
    UNION {UNION {{[kind |-> IF ConfirmedLive(td[tw], t) THEN "live" ELSE "offline",
                    tw |-> tw, g |-> g,
                    d |-> td[tw].DiscordChannels[g][i].ChannelID] :
                      i \in {j \in 1..Len(td[tw].DiscordChannels[g]) :
                                Flipped(td, gs, t, tw, g, j)}} :
                  g \in DOMAIN td[tw].DiscordChannels} :
           tw \in DOMAIN td}

\* The chat channels the goroutine launched for n can address. Its closure
\* reads the loop variable discordChannel (lines 297 and 312) while the loop
\* of line 293 or 308 goes on writing it: it finds the entry that launched
\* it or any later entry of the same list.
AddressesOf(td, n) ==
    LET s == td[n.tw].DiscordChannels[n.g]
    IN {s[j].ChannelID :
           j \in {k \in 1..Len(s) : \E i \in 1..k : s[i].ChannelID = n.d}}

\* The messages a set of launched goroutines can send: each goroutine's
\* notification with the chat channel it is sent to.
Deliveries(td, ns) ==
    {{[kind |-> n.kind, tw |-> n.tw, g |-> n.g, d |-> n.d, to |-> f[n]] : n \in ns} :
        f \in {a \in [ns -> ChannelIDs] : \A n \in ns : a[n] \in AddressesOf(td, n)}}

\* The StartedAt GetStreams can report for a live login: the stream began
\* long ago (1), just now, or is the one already recorded.
StartedAts(tc, t) == {1, t} \cup ({tc.StartTime} \ {ZeroTime})

\* What GetStreams can report for the logins queried: any subset of them
\* live, each with one of its StartedAts.
StreamReports(td, t) ==
    UNION {{f \in [S -> 1..t] : \A tw \in S : f[tw] \in StartedAts(td[tw], t)} :
           S \in SUBSET (DOMAIN td)}

(***************************************************************************)
(* History                                                                 *)
(***************************************************************************)
Op(op, res) == [op |-> op, res |-> res]
Other == Op("Other", "")

\* The subscriptions a set of messages is sent to.
KeysOf(ns, kind) == {<<n.tw, n.g, n.to>> : n \in {m \in ns : m.kind = kind}}

\* The record of the last notification sent to each subscription: without
\* the subscription k, and after the messages ns (the messages one cycle
\* sends for a login are of one kind, lines 290 and 305).
Forget(ls, k) == [x \in DOMAIN ls \ {k} |-> ls[x]]

Record(ls, ns) ==
    [k \in DOMAIN ls \cup KeysOf(ns, "live") \cup KeysOf(ns, "offline") |->
        IF k \in KeysOf(ns, "live") THEN "live"
        ELSE IF k \in KeysOf(ns, "offline") THEN "offline"
        ELSE ls[k]]

(***************************************************************************)
(* main: New, GetAuthToken, StartMonitoring (lines 68-90, 94-105, 169-175) *)
(***************************************************************************)
NoCmd == EmptyMap

Start(authOK) ==
    /\ mainPc \in {"Stopped", "Closed"}
    /\ isConnected' = authOK
    /\ activeSessions' = authOK
    /\ twitchData' = readGobFromDisk(disk)
    /\ guildStatus' = EmptyMap
    /\ mainPc' = "Running"
    /\ lastOp' = Op("Start", "")
    /\ sent' = {}
    /\ liveRun' = {}
    /\ offRun' = {}
    /\ pruned' = {}
    /\ UNCHANGED <<disk, now, cmd, lastSent>>

\* A panic in a handler or in the Monitor ends the process without Close.
Crashed ==
    /\ twitchData' = EmptyMap
    /\ guildStatus' = EmptyMap
    /\ isConnected' = FALSE
    /\ activeSessions' = FALSE
    /\ mainPc' = "Stopped"
    /\ lastOp' = Op("Panic", "")
    /\ sent' = {}
    /\ liveRun' = {}
    /\ offRun' = {}
    /\ pruned' = {}
    /\ cmd' = NoCmd
    /\ UNCHANGED <<disk, now, lastSent>>

(***************************************************************************)
(* The command handlers, each as one step                                  *)
(***************************************************************************)
\* GetSession(s) is nil: the method reads t.twitchData of a nil Session.
CommandOnNilSession ==
    /\ mainPc = "Running"
    /\ ~activeSessions
    /\ Crashed

\* vo and uo are read only when the login is new (lines 110-132).
RegisterChannel(tw, g, d, vo, uo, writeOK) ==
    /\ mainPc = "Running"
    /\ activeSessions
    /\ tw \in DOMAIN twitchData => vo = "valid" /\ uo = "found"
    /\ LET r == RegisterOutcome(twitchData, tw, g, d, vo, uo)
       IN IF r.err = "panic"
          THEN Crashed
          ELSE /\ twitchData' = r.td
               /\ isConnected' = IF tw \in DOMAIN twitchData THEN isConnected
                                 ELSE ConnectedAfterValidate(vo, isConnected)
               /\ disk' = IF r.err = "nil" /\ writeOK
                          THEN WriteGobToDisk(r.td) ELSE disk
               /\ lastOp' = Op("Register", r.err)
               /\ sent' = {}
               /\ liveRun' = IF r.err = "nil" THEN liveRun \ {<<tw, g, d>>} ELSE liveRun
               /\ offRun' = IF r.err = "nil" THEN offRun \ {<<tw, g, d>>} ELSE offRun
               /\ lastSent' = IF r.err = "nil" THEN Forget(lastSent, <<tw, g, d>>)
                              ELSE lastSent
               /\ UNCHANGED <<guildStatus, activeSessions, now, mainPc, cmd, pruned>>

UnregisterChannel(tw, g, d, writeOK) ==
    /\ mainPc = "Running"
    /\ activeSessions
    /\ LET r == UnregisterOutcome(twitchData, tw, g, d)
       IN /\ twitchData' = r.td
          /\ disk' = IF r.res /\ writeOK THEN WriteGobToDisk(r.td) ELSE disk
          /\ lastOp' = Op("Unregister", IF r.res THEN "true" ELSE "false")
          /\ sent' = {}
          /\ liveRun' = IF r.res THEN liveRun \ {<<tw, g, d>>} ELSE liveRun
          /\ offRun' = IF r.res THEN offRun \ {<<tw, g, d>>} ELSE offRun
          /\ lastSent' = IF r.res THEN Forget(lastSent, <<tw, g, d>>) ELSE lastSent
          /\ UNCHANGED <<guildStatus, isConnected, activeSessions, now, mainPc,
                         cmd, pruned>>

(***************************************************************************)
(* Guild availability (lines 153-166)                                      *)
(***************************************************************************)
GuildStep(gs) ==
    /\ mainPc = "Running"
    /\ guildStatus' = gs
    /\ lastOp' = Other
    /\ sent' = {}
    /\ UNCHANGED <<twitchData, isConnected, activeSessions, disk, now, mainPc,
                   cmd, liveRun, offRun, lastSent, pruned>>

SetGuildActive(g) == GuildStep(MapPut(guildStatus, g, TRUE))
SetGuildInactive(g) == GuildStep(MapPut(guildStatus, g, FALSE))
SetGuildUnavailable(g) == GuildStep(MapDelete(guildStatus, g))

(***************************************************************************)
(* Close and the process exit that follows it (lines 50-62)                *)
(***************************************************************************)
Close(writeOK) ==
    /\ mainPc = "Running"
    /\ isConnected' = FALSE
    /\ twitchData' = ClosePrune(twitchData, guildStatus)
    /\ disk' = IF writeOK
               THEN WriteGobToDisk(ClosePrune(twitchData, guildStatus))
               ELSE disk
    /\ lastOp' = Op("Close", IF writeOK THEN "nil" ELSE "error")
    /\ activeSessions' = FALSE
    /\ mainPc' = "Closed"
    /\ sent' = {}
    /\ pruned' = Subs(twitchData) \ Subs(ClosePrune(twitchData, guildStatus))
    /\ UNCHANGED <<guildStatus, now, cmd, liveRun, offRun, lastSent>>

(***************************************************************************)
(* The Monitor: one iteration of the loop of monitorChannels as one step   *)
(***************************************************************************)
\* What GetStreams answers: "ok" with the streams, "error" with a response
\* that holds no stream, or "errorNil" with no response at all (line 271
\* then reads a nil pointer, once for the first login of the registry).
QueryOutcomes == {"ok", "error", "errorNil"}

\* Lines 268-321 on the streams GetStreams reported live.
CycleBody(live) ==
    LET td1 == UpdateTimes(twitchData, live, now)
    IN /\ twitchData' = Debounce(td1, guildStatus, now)
       /\ sent' \in Deliveries(td1, Dispatched(td1, guildStatus, now))
       /\ liveRun' = {k \in liveRun : k[1] \in DOMAIN live} \cup KeysOf(sent', "live")
       /\ offRun' = {k \in offRun : k[1] \notin DOMAIN live} \cup KeysOf(sent', "offline")
       /\ lastSent' = Record(lastSent, sent')

MonitorCycle(vo, qo, live) ==
    /\ mainPc = "Running"
    /\ activeSessions
    /\ isConnected
    /\ qo # "ok" => live = EmptyMap
    /\ ~validateAndRefreshAuthToken(vo) => qo = "ok" /\ live = EmptyMap
    /\ IF ~validateAndRefreshAuthToken(vo)
       THEN /\ isConnected' = ConnectedAfterValidate(vo, isConnected)
            /\ lastOp' = Op("Monitor", "skipped")
            /\ sent' = {}
            /\ UNCHANGED <<twitchData, guildStatus, activeSessions, disk, now,
                           mainPc, cmd, liveRun, offRun, lastSent, pruned>>
       ELSE IF qo = "errorNil" /\ DOMAIN twitchData # {}
       THEN Crashed
       ELSE /\ CycleBody(live)
            /\ isConnected' = ConnectedAfterValidate(vo, isConnected)
            /\ lastOp' = Op("Monitor", IF qo = "ok" THEN "ok" ELSE "error")
            /\ UNCHANGED <<guildStatus, activeSessions, disk, now, mainPc,
                           cmd, pruned>>

\* Lines 244 and 327: the loop ends once isConnected is false.
MonitorExit ==
    /\ mainPc = "Running"
    /\ activeSessions
    /\ ~isConnected
    /\ activeSessions' = FALSE
    /\ lastOp' = Other
    /\ sent' = {}
    /\ UNCHANGED <<twitchData, guildStatus, isConnected, disk, now, mainPc,
                   cmd, liveRun, offRun, lastSent, pruned>>

\* The clock, for at most n ticks.
TickWithin(n) ==
    /\ now < InitTime + n
    /\ now' = now + 1
    /\ lastOp' = Other
    /\ sent' = {}
    /\ UNCHANGED <<twitchData, guildStatus, isConnected, activeSessions, disk,
                   mainPc, cmd, liveRun, offRun, lastSent, pruned>>

Tick == TickWithin(MaxTicks)

(***************************************************************************)
(* Spec: the registry and its snapshot over the life of the process.       *)
(* The clock stands still and every stream reported live has just begun,   *)
(* so the Monitor stamps the times and flips no flag. The snapshot writes  *)
(* of the command handlers succeed; the one of Close may fail.             *)
(***************************************************************************)
Init ==
    /\ twitchData = EmptyMap
    /\ guildStatus = EmptyMap
    /\ isConnected = FALSE
    /\ activeSessions = FALSE
    /\ disk = NotExist
    /\ now = InitTime
    /\ mainPc = "Stopped"
    /\ cmd = NoCmd
    /\ lastOp = Other
    /\ sent = {}
    /\ liveRun = {}
    /\ offRun = {}
    /\ lastSent = EmptyMap
    /\ pruned = {}

\* The answers RegisterChannel reads: none when the login is registered.
ValidateInputs(tw) == IF tw \in DOMAIN twitchData THEN {"valid"} ELSE ValidateOutcomes
UsersInputs(tw) == IF tw \in DOMAIN twitchData THEN {"found"} ELSE UsersOutcomes(tw)

\* The streams a cycle reads: none unless the token check and the query pass.
CycleInputs(vo, qo, reports) ==
    IF validateAndRefreshAuthToken(vo) /\ qo = "ok" THEN reports ELSE {EmptyMap}

JustBegun == {live \in StreamReports(twitchData, now) :
                 \A tw \in DOMAIN live : live[tw] = now}

Next ==
    \/ \E authOK \in BOOLEAN : Start(authOK)
    \/ CommandOnNilSession
    \/ \E tw \in OneLogin, k \in MessageKeys :
            \E vo \in ValidateInputs(tw), uo \in UsersInputs(tw) :
                RegisterChannel(tw, k[1], k[2], vo, uo, TRUE)
    \/ \E tw \in OneLogin, k \in MessageKeys :
            UnregisterChannel(tw, k[1], k[2], TRUE)
    \/ \E g \in Guilds : SetGuildActive(g)
    \/ \E g \in Guilds : SetGuildInactive(g)
    \/ \E g \in Guilds : SetGuildUnavailable(g)
    \/ \E writeOK \in BOOLEAN : Close(writeOK)
    \/ \E vo \in ValidateOutcomes, qo \in QueryOutcomes :
            \E live \in CycleInputs(vo, qo, JustBegun) :
                MonitorCycle(vo, qo, live)
    \/ MonitorExit

Spec == Init /\ [][Next]_vars

(***************************************************************************)
(* SpecMon: one Session from StartMonitoring on, with the clock running.   *)
(* The snapshot directory is not writable (every WriteGobToDisk fails and  *)
(* is logged), so the file plays no part.                                  *)
(***************************************************************************)
InitMon ==
    /\ twitchData = EmptyMap
    /\ guildStatus = EmptyMap
    /\ isConnected = TRUE
    /\ activeSessions = TRUE
    /\ disk = NotExist
    /\ now = InitTime
    /\ mainPc = "Running"
    /\ cmd = NoCmd
    /\ lastOp = Other
    /\ sent = {}
    /\ liveRun = {}
    /\ offRun = {}
    /\ lastSent = EmptyMap
    /\ pruned = {}

NextMon ==
    \/ \E tw \in OneUser, k \in MessageKeys :
            \E vo \in ValidateInputs(tw), uo \in UsersInputs(tw) \ {"error"} :
                RegisterChannel(tw, k[1], k[2], vo, uo, FALSE)
    \/ \E tw \in OneUser, k \in MessageKeys :
            UnregisterChannel(tw, k[1], k[2], FALSE)
    \/ \E g \in Guilds : SetGuildActive(g)
    \/ \E g \in Guilds : SetGuildInactive(g)
    \/ \E g \in Guilds : SetGuildUnavailable(g)
    \/ \E vo \in ValidateOutcomes, qo \in QueryOutcomes \ {"errorNil"} :
            \E live \in CycleInputs(vo, qo, StreamReports(twitchData, now)) :
                MonitorCycle(vo, qo, live)
    \/ MonitorExit
    \/ CommandOnNilSession
    \/ Tick

SpecMon == InitMon /\ [][NextMon]_vars

(***************************************************************************)
(* SpecCmd: the command handlers alone on a running Session, for every     *)
(* login.                                                                  *)
(***************************************************************************)
NextCmd ==
    \/ \E tw \in Logins, k \in MessageKeys :
            \E vo \in ValidateInputs(tw), uo \in UsersInputs(tw) \ {"error"} :
                RegisterChannel(tw, k[1], k[2], vo, uo, TRUE)
    \/ \E tw \in Logins, k \in MessageKeys :
            UnregisterChannel(tw, k[1], k[2], TRUE)

SpecCmd == InitMon /\ [][NextCmd]_vars

(***************************************************************************)
(* SpecConc: two command handlers in flight at once. discordgo runs each   *)
(* handler call in a goroutine of its own and the Session takes no lock,   *)
(* so the statements of two calls interleave. cmd maps a handler in flight *)
(* to the call it is in: where it stands and what it has read.             *)
(***************************************************************************)
Handlers == {"h1", "h2"}

Call(pc, tw, g, d, idx) == [pc |-> pc, tw |-> tw, g |-> g, d |-> d, idx |-> idx]

\* Lines 110-132 of a RegisterChannel call.
ConcRegisterLookup(h, tw, g, d, vo, uo) ==
    /\ mainPc = "Running"
    /\ activeSessions
    /\ h \notin DOMAIN cmd
    /\ tw \in DOMAIN twitchData => vo = "valid" /\ uo = "found"
    /\ LET r == RegisterLookup(twitchData, tw, vo, uo)
       IN IF r.err = "panic"
          THEN Crashed
          ELSE /\ twitchData' = r.td
               /\ isConnected' = IF tw \in DOMAIN twitchData THEN isConnected
                                 ELSE ConnectedAfterValidate(vo, isConnected)
               /\ cmd' = IF r.err = "nil"
                         THEN MapPut(cmd, h, Call("check", tw, g, d, -1))
                         ELSE cmd
               /\ lastOp' = IF r.err = "nil" THEN Other ELSE Op("Register", r.err)
               /\ sent' = {}
               /\ UNCHANGED <<guildStatus, activeSessions, disk, now, mainPc,
                              liveRun, offRun, lastSent, pruned>>

\* Line 135: the call reads getChannelIdx.
ConcRegisterCheck(h) ==
    /\ h \in DOMAIN cmd
    /\ cmd[h].pc = "check"
    /\ LET c == cmd[h]
           found == getChannelIdx(twitchData, c.tw, c.g, c.d) >= 0
       IN /\ cmd' = IF found THEN MapDelete(cmd, h)
                    ELSE MapPut(cmd, h, Call("append", c.tw, c.g, c.d, -1))
          /\ lastOp' = IF found THEN Op("Register", "ErrTwitchUserRegistered")
                       ELSE Other
    /\ sent' = {}
    /\ UNCHANGED <<twitchData, guildStatus, isConnected, activeSessions, disk,
                   now, mainPc, liveRun, offRun, lastSent, pruned>>

\* Lines 136-148: the append and the snapshot. t.twitchData[twitchID] is nil
\* if the login was deleted since line 135.
ConcRegisterAppend(h, writeOK) ==
    /\ h \in DOMAIN cmd
    /\ cmd[h].pc = "append"
    /\ LET c == cmd[h]
       IN IF c.tw \notin DOMAIN twitchData
          THEN Crashed
          ELSE /\ twitchData' = AppendChannel(twitchData, c.tw, c.g, c.d)
               /\ disk' = IF writeOK
                          THEN WriteGobToDisk(AppendChannel(twitchData, c.tw, c.g, c.d))
                          ELSE disk
               /\ cmd' = MapDelete(cmd, h)
               /\ lastOp' = Op("Register", "nil")
               /\ sent' = {}
               /\ UNCHANGED <<guildStatus, isConnected, activeSessions, now,
                              mainPc, liveRun, offRun, lastSent, pruned>>

\* Line 179 of an UnregisterChannel call.
ConcUnregisterFind(h, tw, g, d) ==
    /\ mainPc = "Running"
    /\ activeSessions
    /\ h \notin DOMAIN cmd
    /\ LET idx == getChannelIdx(twitchData, tw, g, d)
       IN /\ cmd' = IF idx >= 0 THEN MapPut(cmd, h, Call("remove", tw, g, d, idx))
                    ELSE cmd
          /\ lastOp' = IF idx >= 0 THEN Other ELSE Op("Unregister", "false")
    /\ sent' = {}
    /\ UNCHANGED <<twitchData, guildStatus, isConnected, activeSessions, disk,
                   now, mainPc, liveRun, offRun, lastSent, pruned>>

\* Lines 180-196 with the index line 179 read. The login may be gone (nil
\* pointer) or the list shorter than the index (index out of range).
ConcUnregisterRemove(h, writeOK) ==
    /\ h \in DOMAIN cmd
    /\ cmd[h].pc = "remove"
    /\ LET c == cmd[h]
       IN IF \/ c.tw \notin DOMAIN twitchData
             \/ c.idx >= Len(DiscordChannelsOf(twitchData, c.tw, c.g))
          THEN Crashed
          ELSE /\ twitchData' = UnregisterAt(twitchData, c.tw, c.g, c.idx)
               /\ disk' = IF writeOK
                          THEN WriteGobToDisk(UnregisterAt(twitchData, c.tw, c.g, c.idx))
                          ELSE disk
               /\ cmd' = MapDelete(cmd, h)
               /\ lastOp' = Op("Unregister", "true")
               /\ sent' = {}
               /\ UNCHANGED <<guildStatus, isConnected, activeSessions, now,
                              mainPc, liveRun, offRun, lastSent, pruned>>

NextConc ==
    \/ \E h \in Handlers, tw \in OneLogin, k \in MessageKeys :
            \E vo \in ValidateInputs(tw), uo \in UsersInputs(tw) :
                ConcRegisterLookup(h, tw, k[1], k[2], vo, uo)
    \/ \E h \in Handlers : ConcRegisterCheck(h)
    \/ \E h \in Handlers : ConcRegisterAppend(h, TRUE)
    \/ \E h \in Handlers, tw \in OneLogin, k \in MessageKeys :
            ConcUnregisterFind(h, tw, k[1], k[2])
    \/ \E h \in Handlers : ConcUnregisterRemove(h, TRUE)
    \/ \E live \in JustBegun : MonitorCycle("valid", "ok", live)
    \/ Start(TRUE)

SpecConc == InitMon /\ [][NextConc]_vars

(***************************************************************************)
(* SpecAuth: the Monitor and the command handlers around the credential.   *)
(* The Monitor goroutine is scheduled: a cycle that can run does run, and  *)
(* a loop whose test of line 244 fails does exit.                          *)
(***************************************************************************)
AuthCycle ==
    \E vo \in ValidateOutcomes, qo \in QueryOutcomes \ {"errorNil"} :
        \E live \in CycleInputs(vo, qo, JustBegun) : MonitorCycle(vo, qo, live)

NextAuth ==
    \/ \E tw \in OneLogin, k \in MessageKeys :
            \E vo \in ValidateInputs(tw), uo \in UsersInputs(tw) \ {"error"} :
                RegisterChannel(tw, k[1], k[2], vo, uo, FALSE)
    \/ \E tw \in OneLogin, k \in MessageKeys :
            UnregisterChannel(tw, k[1], k[2], FALSE)
    \/ AuthCycle
    \/ MonitorExit

SpecAuth ==
    InitMon /\ [][NextAuth]_vars /\ WF_vars(AuthCycle) /\ WF_vars(MonitorExit)

(***************************************************************************)
(* SpecClose: Close against a Monitor whose cycle runs step by step. main  *)
(* calls ts.Close() and then dg.Close() before it returns, and the Monitor *)
(* goroutine runs on until the process ends: mainPc is "Closing" between   *)
(* the return of ts.Close() and the end of the process. cmd["mon"] is      *)
(* where the Monitor stands in its cycle.                                  *)
(***************************************************************************)
MonitorAt(pc) == "mon" \in DOMAIN cmd /\ cmd["mon"].pc = pc
MonitorTo(pc) == cmd' = MapPut(cmd, "mon", [pc |-> pc])
ProcessAlive == mainPc \in {"Running", "Closing"} /\ activeSessions

\* Line 244: the test of the loop; line 327 when it fails.
ConcMonitorTest ==
    /\ ProcessAlive
    /\ "mon" \notin DOMAIN cmd
    /\ IF isConnected
       THEN MonitorTo("validate") /\ UNCHANGED activeSessions
       ELSE activeSessions' = FALSE /\ UNCHANGED cmd
    /\ lastOp' = Other
    /\ sent' = {}
    /\ UNCHANGED <<twitchData, guildStatus, isConnected, disk, now, mainPc,
                   liveRun, offRun, lastSent, pruned>>

\* Lines 345-365 up to the refresh: ValidateToken and what follows from it.
ConcMonitorValidate(vo) ==
    /\ ProcessAlive
    /\ MonitorAt("validate")
    /\ CASE vo = "valid" -> MonitorTo("query") /\ UNCHANGED isConnected
         [] vo = "invalid" -> MonitorTo("refresh") /\ isConnected' = FALSE
         [] OTHER -> MonitorTo("sleep") /\ UNCHANGED isConnected
    /\ lastOp' = Other
    /\ sent' = {}
    /\ UNCHANGED <<twitchData, guildStatus, activeSessions, disk, now, mainPc,
                   liveRun, offRun, lastSent, pruned>>

\* Lines 349-360: GetAuthToken sets isConnected (line 102) when it succeeds.
ConcMonitorRefresh(ok) ==
    /\ ProcessAlive
    /\ MonitorAt("refresh")
    /\ IF ok
       THEN MonitorTo("query") /\ isConnected' = TRUE
       ELSE MonitorTo("sleep") /\ UNCHANGED isConnected
    /\ lastOp' = Other
    /\ sent' = {}
    /\ UNCHANGED <<twitchData, guildStatus, activeSessions, disk, now, mainPc,
                   liveRun, offRun, lastSent, pruned>>

\* Lines 246-321: the query and the body of the cycle.
ConcMonitorBody(qo, live) ==
    /\ ProcessAlive
    /\ MonitorAt("query")
    /\ qo # "ok" => live = EmptyMap
    /\ CycleBody(live)
    /\ MonitorTo("sleep")
    /\ lastOp' = Op("Monitor", qo)
    /\ UNCHANGED <<guildStatus, isConnected, activeSessions, disk, now, mainPc,
                   pruned>>

\* Line 324.
ConcMonitorSleep ==
    /\ ProcessAlive
    /\ MonitorAt("sleep")
    /\ cmd' = MapDelete(cmd, "mon")
    /\ lastOp' = Other
    /\ sent' = {}
    /\ UNCHANGED <<twitchData, guildStatus, isConnected, activeSessions, disk,
                   now, mainPc, liveRun, offRun, lastSent, pruned>>

\* ts.Close() (lines 50-62), called by main at line 90 of discordtwitchbot.go.
ConcClose(writeOK) ==
    /\ mainPc = "Running"
    /\ isConnected' = FALSE
    /\ twitchData' = ClosePrune(twitchData, guildStatus)
    /\ disk' = IF writeOK
               THEN WriteGobToDisk(ClosePrune(twitchData, guildStatus))
               ELSE disk
    /\ lastOp' = Op("Close", IF writeOK THEN "nil" ELSE "error")
    /\ mainPc' = "Closing"
    /\ sent' = {}
    /\ pruned' = Subs(twitchData) \ Subs(ClosePrune(twitchData, guildStatus))
    /\ UNCHANGED <<guildStatus, activeSessions, now, cmd, liveRun, offRun, lastSent>>

\* main returns (line 97): the process and its goroutines end.
ConcExit ==
    /\ mainPc = "Closing"
    /\ mainPc' = "Closed"
    /\ activeSessions' = FALSE
    /\ cmd' = NoCmd
    /\ lastOp' = Other
    /\ sent' = {}
    /\ UNCHANGED <<twitchData, guildStatus, isConnected, disk, now, liveRun,
                   offRun, lastSent, pruned>>

MonitorValidateOutcomes == {"valid", "error", "badStatus", "invalid"}

NextClose ==
    \/ \E k \in MessageKeys : RegisterChannel("alice", k[1], k[2], "valid", "found", TRUE)
    \/ \E g \in Guilds : SetGuildActive(g)
    \/ ConcMonitorTest
    \/ \E vo \in MonitorValidateOutcomes : ConcMonitorValidate(vo)
    \/ \E ok \in BOOLEAN : ConcMonitorRefresh(ok)
    \/ \E qo \in QueryOutcomes \ {"errorNil"} :
            \E live \in CycleInputs("valid", qo, StreamReports(twitchData, now)) :
                ConcMonitorBody(qo, live)
    \/ ConcMonitorSleep
    \/ ConcClose(TRUE)
    \/ ConcExit

SpecClose == InitMon /\ [][NextClose]_vars

(***************************************************************************)
(* SpecSnap: the snapshot over restarts of a process whose Monitor flips   *)
(* flags. Every write succeeds, the token is valid and the queries answer. *)
(***************************************************************************)
NextSnap ==
    \/ Start(TRUE)
    \/ \E k \in MessageKeys : RegisterChannel("alice", k[1], k[2], "valid", "found", TRUE)
    \/ \E k \in MessageKeys : UnregisterChannel("alice", k[1], k[2], TRUE)
    \/ \E g \in Guilds : SetGuildActive(g)
    \/ \E live \in StreamReports(twitchData, now) : MonitorCycle("valid", "ok", live)
    \/ Close(TRUE)

SpecSnap == Init /\ [][NextSnap]_vars

(***************************************************************************)
(* SpecWrite: two command handlers in flight at once, with the mutation of *)
(* the registry and the write of the snapshot as the separate statements   *)
(* they are. The token is valid, alice exists and every write succeeds.    *)
(***************************************************************************)
\* Lines 136-140: the append; the call goes on to the write of line 143.
WriteRegisterAppend(h) ==
    /\ h \in DOMAIN cmd
    /\ cmd[h].pc = "append"
    /\ LET c == cmd[h]
       IN IF c.tw \notin DOMAIN twitchData
          THEN Crashed
          ELSE /\ twitchData' = AppendChannel(twitchData, c.tw, c.g, c.d)
               /\ cmd' = MapPut(cmd, h, Call("writeReg", c.tw, c.g, c.d, -1))
               /\ lastOp' = Other
               /\ sent' = {}
               /\ UNCHANGED <<guildStatus, isConnected, activeSessions, disk,
                              now, mainPc, liveRun, offRun, lastSent, pruned>>

\* Line 180: remove on the list as it is now, with the index line 179 read.
\* The list stays in the map even when it is left empty.
WriteUnregisterRemove(h) ==
    /\ h \in DOMAIN cmd
    /\ cmd[h].pc = "remove"
    /\ LET c == cmd[h]
       IN IF \/ c.tw \notin DOMAIN twitchData
             \/ c.idx >= Len(DiscordChannelsOf(twitchData, c.tw, c.g))
          THEN Crashed
          ELSE /\ twitchData' =
                     [twitchData EXCEPT ![c.tw].DiscordChannels =
                         MapPut(@, c.g, remove(DiscordChannelsOf(twitchData, c.tw, c.g),
                                               c.idx))]
               /\ cmd' = MapPut(cmd, h, Call("prune", c.tw, c.g, c.d, c.idx))
               /\ lastOp' = Other
               /\ sent' = {}
               /\ UNCHANGED <<guildStatus, isConnected, activeSessions, disk,
                              now, mainPc, liveRun, offRun, lastSent, pruned>>

\* Lines 183-191: drop the guild's entry if its list is empty, then the
\* login's if it has no guild left.
WriteUnregisterPrune(h) ==
    /\ h \in DOMAIN cmd
    /\ cmd[h].pc = "prune"
    /\ LET c == cmd[h]
       IN IF c.tw \notin DOMAIN twitchData
          THEN Crashed
          ELSE LET dcs == IF Len(DiscordChannelsOf(twitchData, c.tw, c.g)) = 0
                          THEN MapDelete(twitchData[c.tw].DiscordChannels, c.g)
                          ELSE twitchData[c.tw].DiscordChannels
               IN /\ twitchData' = IF DOMAIN dcs = {}
                                   THEN MapDelete(twitchData, c.tw)
                                   ELSE [twitchData EXCEPT ![c.tw].DiscordChannels = dcs]
                  /\ cmd' = MapPut(cmd, h, Call("writeUnreg", c.tw, c.g, c.d, c.idx))
                  /\ lastOp' = Other
                  /\ sent' = {}
                  /\ UNCHANGED <<guildStatus, isConnected, activeSessions, disk,
                                 now, mainPc, liveRun, offRun, lastSent, pruned>>

\* Lines 143-148 and 194-198: the snapshot of the registry as it is now,
\* and the return.
WriteSnapshot(h) ==
    /\ h \in DOMAIN cmd
    /\ cmd[h].pc \in {"writeReg", "writeUnreg"}
    /\ disk' = WriteGobToDisk(twitchData)
    /\ cmd' = MapDelete(cmd, h)
    /\ lastOp' = IF cmd[h].pc = "writeReg" THEN Op("Register", "nil")
                 ELSE Op("Unregister", "true")
    /\ sent' = {}
    /\ UNCHANGED <<twitchData, guildStatus, isConnected, activeSessions, now,
                   mainPc, liveRun, offRun, lastSent, pruned>>

NextWrite ==
    \/ \E h \in Handlers, k \in MessageKeys :
            ConcRegisterLookup(h, "alice", k[1], k[2], "valid", "found")
    \/ \E h \in Handlers : ConcRegisterCheck(h)
    \/ \E h \in Handlers : WriteRegisterAppend(h)
    \/ \E h \in Handlers, k \in MessageKeys :
            ConcUnregisterFind(h, "alice", k[1], k[2])
    \/ \E h \in Handlers : WriteUnregisterRemove(h)
    \/ \E h \in Handlers : WriteUnregisterPrune(h)
    \/ \E h \in Handlers : WriteSnapshot(h)

SpecWrite == InitMon /\ [][NextWrite]_vars

(***************************************************************************)
(* SpecSession: one subscription, (alice, g1, c1), over several streams.   *)
(* The clock runs for SessionTicks and GetStreams reports what a stream    *)
(* can be: a stream already seen keeps its StartedAt, and a new one began  *)
(* no earlier than the end time on record.                                 *)
(***************************************************************************)
SessionStartedAts(tc, t) ==
    IF tc.StartTime # ZeroTime THEN {tc.StartTime}
    ELSE IF tc.EndTime = ZeroTime THEN {1, t}
    ELSE tc.EndTime..t

SessionReports(td, t) ==
    UNION {{f \in [S -> 1..t] : \A tw \in S : f[tw] \in SessionStartedAts(td[tw], t)} :
           S \in SUBSET (DOMAIN td)}

NextSession ==
    \/ RegisterChannel("alice", "g1", "c1", "valid", "found", FALSE)
    \/ UnregisterChannel("alice", "g1", "c1", FALSE)
    \/ SetGuildActive("g1")
    \/ SetGuildInactive("g1")
    \/ SetGuildUnavailable("g1")
    \/ \E live \in SessionReports(twitchData, now) : MonitorCycle("valid", "ok", live)
    \/ TickWithin(SessionTicks)

SpecSession == InitMon /\ [][NextSession]_vars

(***************************************************************************)
(* The claims                                                              *)
(***************************************************************************)
AllUsersOutcomes == {"found", "none", "error"}
SubsOfLogin(td, tw) == {k \in Subs(td) : k[1] = tw}

\* A guild whose status entry is present and true.
StatusTrue(gs, g) == g \in DOMAIN gs /\ gs[g]

\* A guild whose status entry is present and false.
StatusFalse(gs, g) == g \in DOMAIN gs /\ ~gs[g]

\* C1, first part: in every state, RegisterChannel on a key that is
\* subscribed returns ErrTwitchUserRegistered and leaves the registry as it
\* is, whatever the API answers, and the key has exactly one subscription.
C1_OnSubscribedKey ==
    \A k \in Subs(twitchData) :
        /\ CountOf(twitchData, k[1], k[2], k[3]) = 1
        /\ \A vo \in ValidateOutcomes, uo \in AllUsersOutcomes :
            RegisterOutcome(twitchData, k[1], k[2], k[3], vo, uo) =
                [td |-> twitchData, err |-> "ErrTwitchUserRegistered"]

\* C1, second part: a RegisterChannel that succeeds adds one subscription and
\* keeps the others; one that returns ErrTwitchUserRegistered changes neither
\* the registry nor the snapshot; a subscription goes away only by a
\* successful UnregisterChannel or when the process ends.
C1_Step ==
    /\ lastOp'.op = "Register" /\ lastOp'.res = "nil" =>
          /\ Subs(twitchData) \subseteq Subs(twitchData')
          /\ Cardinality(Subs(twitchData')) = Cardinality(Subs(twitchData)) + 1
    /\ lastOp'.op = "Register" /\ lastOp'.res = "ErrTwitchUserRegistered" =>
          /\ twitchData' = twitchData
          /\ disk' = disk
    /\ ~(Subs(twitchData) \subseteq Subs(twitchData')) =>
          \/ lastOp' = Op("Unregister", "true")
          \/ lastOp'.op \in {"Close", "Panic", "Start"}

\* C1: a second RegisterChannel for a key registered with success and not
\* unregistered since returns the already-registered error, mutates nothing,
\* and the registry holds exactly one subscription for the key.
C1_SecondRegister == []C1_OnSubscribedKey /\ [][C1_Step]_vars

\* A RegisterChannel has just answered ErrTwitchUserRegistered.
C1_Witness ==
    /\ lastOp = Op("Register", "ErrTwitchUserRegistered")
    /\ Cardinality(Subs(twitchData)) = 3

\* C3: every login of the registry has a guild entry and every guild entry
\* has a non-empty list.
C3_NoEmptyEntry ==
    \A tw \in DOMAIN twitchData :
        /\ DOMAIN twitchData[tw].DiscordChannels # {}
        /\ \A g \in DOMAIN twitchData[tw].DiscordChannels :
              Len(twitchData[tw].DiscordChannels[g]) > 0

\* Unregistering the keys K of one login in every order: each call returns
\* true, and it removes the guild's entry exactly when it empties its list.
RECURSIVE UnregisterEach(_, _)
UnregisterEach(td, K) ==
    IF K = {} THEN {[td |-> td, ok |-> TRUE]}
    ELSE UNION {
        LET r == UnregisterOutcome(td, k[1], k[2], k[3])
            last == Len(DiscordChannelsOf(td, k[1], k[2])) = 1
            gone == \/ k[1] \notin DOMAIN r.td
                    \/ k[2] \notin DOMAIN r.td[k[1]].DiscordChannels
            stepOK == r.res /\ (last <=> gone)
        IN {[td |-> x.td, ok |-> x.ok /\ stepOK] :
               x \in UnregisterEach(r.td, K \ {k})} : k \in K}

\* C4: from every registry the commands build, unregistering all the keys of
\* a login in any order leaves the registry without that login and otherwise
\* as it was, and each step that empties a guild's list removes the guild's
\* entry.
C4_RegisterThenUnregisterAll ==
    \A tw \in DOMAIN twitchData :
        \A x \in UnregisterEach(twitchData, SubsOfLogin(twitchData, tw)) :
            x.ok /\ x.td = MapDelete(twitchData, tw)

\* An UnregisterChannel has just removed the last subscription of alice while
\* bob keeps all of his.
C4_Witness ==
    /\ lastOp = Op("Unregister", "true")
    /\ DOMAIN twitchData = {"bob"}
    /\ Cardinality(Subs(twitchData)) = 3

\* C5, first part: in every state, UnregisterChannel on a key that is not
\* subscribed returns false and leaves the registry as it is.
C5_OnMissingKey ==
    \A tw \in Logins, g \in Guilds, d \in ChannelIDs :
        <<tw, g, d>> \notin Subs(twitchData) =>
            UnregisterOutcome(twitchData, tw, g, d) =
                [td |-> twitchData, res |-> FALSE]

\* C5, second part: a step of UnregisterChannel that returns false changes
\* nothing of the program's state.
C5_Step ==
    lastOp' = Op("Unregister", "false") =>
        UNCHANGED <<twitchData, guildStatus, isConnected, activeSessions, disk,
                    now, mainPc>>

\* C5: UnregisterChannel on a subscription that does not exist returns false
\* and leaves the registry unchanged.
C5_UnregisterMissing == []C5_OnMissingKey /\ [][C5_Step]_vars

\* An UnregisterChannel has just returned false on a registry that holds a
\* raised flag and a start time.
C5_Witness ==
    /\ lastOp = Op("Unregister", "false")
    /\ \E tw \in DOMAIN twitchData :
          /\ twitchData[tw].StartTime # ZeroTime
          /\ \E g \in DOMAIN twitchData[tw].DiscordChannels :
                \E i \in 1..Len(twitchData[tw].DiscordChannels[g]) :
                    twitchData[tw].DiscordChannels[g][i].LiveNotificationSent

\* C9 as stated: after a Close whose write succeeded, the registry and the
\* registry read back from the snapshot hold no subscription of a guild
\* whose status is false or absent.
C9_NoSubscriptionOfNotTrueGuild ==
    lastOp = Op("Close", "nil") =>
        \A k \in Subs(twitchData) \cup Subs(readGobFromDisk(disk)) :
            GuildConnected(guildStatus, k[2])

\* C9 as amended, the state after Close: no subscription of a guild whose
\* status is false, and the snapshot reads back as the registry.
C9_AfterClose ==
    lastOp = Op("Close", "nil") =>
        /\ readGobFromDisk(disk) = twitchData
        /\ \A k \in Subs(twitchData) : ~StatusFalse(guildStatus, k[2])

\* C9 as amended, the step of Close: the lists of the guilds whose status is
\* true or absent are kept as they are; the step of Start: the registry is
\* the one read from the snapshot.
C9_Step ==
    /\ lastOp'.op = "Close" =>
          /\ DOMAIN twitchData' = DOMAIN twitchData
          /\ pruned' = {k \in Subs(twitchData) : StatusFalse(guildStatus, k[2])}
          /\ Subs(twitchData') = Subs(twitchData) \ pruned'
          /\ \A tw \in DOMAIN twitchData :
                \A g \in DOMAIN twitchData[tw].DiscordChannels :
                    ~StatusFalse(guildStatus, g) =>
                        /\ g \in DOMAIN twitchData'[tw].DiscordChannels
                        /\ twitchData'[tw].DiscordChannels[g] =
                              twitchData[tw].DiscordChannels[g]
    /\ lastOp'.op = "Start" => twitchData' = readGobFromDisk(disk)

\* C9, amended: after a Close whose write succeeded, the registry and the
\* reopened registry hold no subscription of a guild whose status was false;
\* the subscriptions of the guilds whose status was true or absent are kept.
C9_ClosePrunesFalseGuilds == []C9_AfterClose /\ [][C9_Step]_vars

\* Close has just pruned a guild whose status is false and kept one whose
\* status is absent and one whose status is true.
C9_Witness ==
    /\ lastOp = Op("Close", "nil")
    /\ guildStatus = [g \in {"g2"} |-> FALSE]
    /\ pruned = {<<"alice", "g2", "c3">>}
    /\ Subs(twitchData) = {<<"alice", "g1", "c1">>, <<"alice", "g1", "c2">>}
    /\ Subs(readGobFromDisk(disk)) = Subs(twitchData)

\* C10, first part: in every state, for a login not in the registry, a failed
\* token check returns ErrInvalidToken and an empty user list returns
\* ErrTwitchUserDoesNotExist, and the registry either call leaves is the one
\* it found.
C10_OnNewLogin ==
    \A tw \in Logins \ DOMAIN twitchData, k \in MessageKeys,
       vo \in ValidateOutcomes, uo \in AllUsersOutcomes :
        LET r == RegisterOutcome(twitchData, tw, k[1], k[2], vo, uo)
        IN /\ ~validateAndRefreshAuthToken(vo) =>
                 r = [td |-> twitchData, err |-> "ErrInvalidToken"]
           /\ validateAndRefreshAuthToken(vo) /\ uo = "none" =>
                 r = [td |-> twitchData, err |-> "ErrTwitchUserDoesNotExist"]
           /\ r.err \in {"ErrInvalidToken", "ErrTwitchUserDoesNotExist"} =>
                 r.td = twitchData

\* C10, second part: a step of RegisterChannel that returns one of the two
\* errors changes neither the registry nor the snapshot.
C10_Step ==
    lastOp'.op = "Register" /\
    lastOp'.res \in {"ErrInvalidToken", "ErrTwitchUserDoesNotExist"} =>
        twitchData' = twitchData /\ disk' = disk

\* C10: a RegisterChannel for a new login that fails with the invalid-token
\* or the does-not-exist error leaves the registry unchanged.
C10_FailedRegister == []C10_OnNewLogin /\ [][C10_Step]_vars

\* A RegisterChannel has just failed on the user lookup while another login
\* is registered.
C10_Witness ==
    /\ lastOp = Op("Register", "ErrTwitchUserDoesNotExist")
    /\ DOMAIN twitchData = {"alice"}

\* LiveNotificationSent of the subscription <<tw, g, d>>.
FlagOf(td, tw, g, d) ==
    \E i \in 1..Len(DiscordChannelsOf(td, tw, g)) :
        /\ DiscordChannelsOf(td, tw, g)[i].ChannelID = d
        /\ DiscordChannelsOf(td, tw, g)[i].LiveNotificationSent

\* The debounce decision: a cycle launches a "now live" goroutine for a
\* subscription only if the channel is confirmed live and the subscription's
\* flag was down, and raises the flag.
LiveDecision ==
    [][lastOp'.op = "Monitor" =>
        \A n \in sent' : n.kind = "live" =>
            /\ ConfirmedLive(twitchData'[n.tw], now)
            /\ ~FlagOf(twitchData, n.tw, n.g, n.d)
            /\ FlagOf(twitchData', n.tw, n.g, n.d)]_vars

\* The same for "now offline": the flag was up and is lowered.
OfflineDecision ==
    [][lastOp'.op = "Monitor" =>
        \A n \in sent' : n.kind = "offline" =>
            /\ ConfirmedOffline(twitchData'[n.tw], now)
            /\ FlagOf(twitchData, n.tw, n.g, n.d)
            /\ ~FlagOf(twitchData', n.tw, n.g, n.d)]_vars

\* C6: a poll cycle sends a "now live" notification to a subscription only
\* if, after the cycle's update of the times, the start time is not zero and
\* the time since it has reached TwitchStateChangeTime; and over a run of
\* cycles that report the channel live the subscription is sent at most one:
\* none if one went to it earlier in the run, and no two in one cycle.
C6_Step ==
    lastOp'.op = "Monitor" =>
        \A n \in sent' : n.kind = "live" =>
            /\ twitchData'[n.tw].StartTime # ZeroTime
            /\ now - twitchData'[n.tw].StartTime >= TwitchStateChangeTime
            /\ <<n.tw, n.g, n.to>> \notin liveRun
            /\ \A m \in sent' :
                  (m.kind = "live" /\ m.tw = n.tw /\ m.g = n.g /\ m.to = n.to)
                      => m = n

C6_LiveDebounce == [][C6_Step]_vars

\* C7: a poll cycle sends a "now offline" notification to a subscription only
\* if the end time is not zero, the time since it exceeds
\* TwitchStateChangeTime and the subscription's flag is up; the cycle lowers
\* the flag; and over a run of cycles that report the channel offline the
\* subscription is sent at most one.
C7_Step ==
    lastOp'.op = "Monitor" =>
        \A n \in sent' : n.kind = "offline" =>
            /\ twitchData'[n.tw].EndTime # ZeroTime
            /\ now - twitchData'[n.tw].EndTime > TwitchStateChangeTime
            /\ FlagOf(twitchData, n.tw, n.g, n.to)
            /\ ~FlagOf(twitchData', n.tw, n.g, n.to)
            /\ <<n.tw, n.g, n.to>> \notin offRun
            /\ \A m \in sent' :
                  (m.kind = "offline" /\ m.tw = n.tw /\ m.g = n.g /\ m.to = n.to)
                      => m = n

C7_OfflineDebounce == [][C7_Step]_vars

\* C8: a poll cycle sends no notification to a chat channel of a guild whose
\* status is absent or false when the cycle reads it, and leaves the guild's
\* lists, flags included, as they are.
C8_Step ==
    lastOp'.op = "Monitor" =>
        /\ \A n \in sent' : \A g \in Guilds :
              (n.g = g \/ n.to \in ChannelsOf(g)) => StatusTrue(guildStatus, g)
        /\ \A tw \in DOMAIN twitchData :
              \A g \in DOMAIN twitchData[tw].DiscordChannels :
                  ~StatusTrue(guildStatus, g) =>
                      twitchData'[tw].DiscordChannels[g] =
                          twitchData[tw].DiscordChannels[g]

C8_OnlyConnectedGuilds == [][C8_Step]_vars

\* A cycle has just announced alice live to g1 and not to g2, whose status is
\* false and whose subscription keeps its flag down.
C8_Witness ==
    /\ lastOp = Op("Monitor", "ok")
    /\ \E n \in sent : n.kind = "live" /\ n.tw = "alice" /\ n.to \in ChannelsOf("g1")
    /\ StatusFalse(guildStatus, "g2")
    /\ <<"alice", "g2", "c3">> \in Subs(twitchData)
    /\ ~FlagOf(twitchData, "alice", "g2", "c3")
    /\ ConfirmedLive(twitchData["alice"], now)

\* C2: in every state reachable under any interleaving of the steps of
\* Register and Unregister calls and of Monitor cycles, no list of a
\* (login, guild) pair holds two entries with the same chat channel id.
C2_UniqueChannelIDs ==
    \A tw \in DOMAIN twitchData :
        \A g \in DOMAIN twitchData[tw].DiscordChannels :
            \A i, j \in 1..Len(twitchData[tw].DiscordChannels[g]) :
                i # j => twitchData[tw].DiscordChannels[g][i].ChannelID #
                             twitchData[tw].DiscordChannels[g][j].ChannelID

\* C11: a poll cycle whose GetStreams call returns an error is skipped: it
\* changes no time and no flag of the registry and sends no notification.
C11_Step ==
    (lastOp'.op = "Monitor" /\ lastOp'.res = "error") =>
        /\ twitchData' = twitchData
        /\ sent' = {}

C11_FailedQuerySkipsCycle == [][C11_Step]_vars

\* C12: a poll cycle that finds the credential invalid and fails to refresh
\* it sets isConnected to false, runs no query, update or debounce step, and
\* the Monitor loop then ends and removes the Session from activeSessions;
\* the Monitor leaves activeSessions only when isConnected is false.
C12_Step ==
    /\ (lastOp'.op = "Monitor" /\ lastOp'.res = "skipped") =>
            (twitchData' = twitchData /\ sent' = {})
    /\ (mainPc' = "Running" /\ activeSessions /\ ~activeSessions') => ~isConnected

C12_RefreshFailed == lastOp = Op("Monitor", "skipped") /\ ~isConnected

C12_MonitorStopsOnFailedRefresh ==
    /\ [][C12_Step]_vars
    /\ (C12_RefreshFailed ~> ~activeSessions)

\* C13: once Close has returned, isConnected stays false, and the Monitor
\* changes nothing in the registry and sends no notification.
C13_Step ==
    (mainPc = "Closing" /\ lastOp'.op = "Monitor") =>
        /\ twitchData' = twitchData
        /\ sent' = {}

C13_CloseStopsMonitor ==
    /\ [](mainPc = "Closing" => ~isConnected)
    /\ [][C13_Step]_vars

\* The second half of C13 alone.
C13_NoMonitorWriteAfterClose == [][C13_Step]_vars

\* C14: a poll cycle that runs its body covers every subscription the
\* registry holds when it starts, those registered since the last cycle
\* included: it stamps the times of every login (a start time, or else an end
\* time) and applies the debounce step to every entry of every list.
C14_Step ==
    (lastOp'.op = "Monitor" /\ lastOp'.res = "ok") =>
        \A tw \in DOMAIN twitchData :
            /\ tw \in DOMAIN twitchData'
            /\ LET old == twitchData[tw]
                   new == twitchData'[tw]
                   up == new.StartTime # ZeroTime
                            /\ now - new.StartTime > TwitchStateChangeTime
                   down == ~up /\ new.EndTime # ZeroTime
                              /\ now - new.EndTime > TwitchStateChangeTime
               IN /\ \/ new.StartTime # ZeroTime /\ new.EndTime = ZeroTime
                     \/ /\ new.StartTime = ZeroTime
                        /\ new.EndTime = IF old.EndTime = ZeroTime THEN now
                                         ELSE old.EndTime
                  /\ DOMAIN new.DiscordChannels = DOMAIN old.DiscordChannels
                  /\ \A g \in DOMAIN old.DiscordChannels :
                        /\ Len(new.DiscordChannels[g]) = Len(old.DiscordChannels[g])
                        /\ \A i \in 1..Len(old.DiscordChannels[g]) :
                              new.DiscordChannels[g][i].LiveNotificationSent =
                                  IF StatusTrue(guildStatus, g) /\ up THEN TRUE
                                  ELSE IF StatusTrue(guildStatus, g) /\ down THEN FALSE
                                  ELSE old.DiscordChannels[g][i].LiveNotificationSent

C14_NextCycleSeesRegistration == [][C14_Step]_vars

\* A cycle has just stamped alice, confirmed her live and announced a
\* subscription of hers.
C14_Witness ==
    /\ lastOp = Op("Monitor", "ok")
    /\ "alice" \in DOMAIN twitchData
    /\ twitchData["alice"].StartTime # ZeroTime
    /\ \E n \in sent : n.kind = "live" /\ FlagOf(twitchData, n.tw, n.g, n.d)

\* A step that has just saved the registry.
Saved ==
    lastOp \in {Op("Register", "nil"), Op("Unregister", "true"), Op("Close", "nil")}

\* C15: right after a save, loading the snapshot gives a registry equal to
\* the one saved, field for field; New after Close loads the registry Close
\* saved; New without a snapshot file starts with the empty registry.
C15_Step ==
    lastOp'.op = "Start" =>
        IF disk = NotExist THEN twitchData' = EmptyMap
        ELSE lastOp = Op("Close", "nil") => twitchData' = twitchData

C15_SnapshotRoundTrip ==
    /\ [](Saved => readGobFromDisk(disk) = twitchData)
    /\ [][C15_Step]_vars

\* New has just loaded a snapshot that holds a raised flag, a start time and
\* subscriptions of two guilds.
C15_Witness ==
    /\ lastOp = Op("Start", "")
    /\ disk # NotExist
    /\ "alice" \in DOMAIN twitchData
    /\ twitchData["alice"].StartTime # ZeroTime
    /\ DOMAIN twitchData["alice"].DiscordChannels = {"g1", "g2"}
    /\ FlagOf(twitchData, "alice", "g1", "c1")
    /\ ~FlagOf(twitchData, "alice", "g2", "c3")

\* The registry holds no login without a guild and no guild without a
\* subscription: it is not in the middle of an UnregisterChannel.
Settled(td) ==
    \A tw \in DOMAIN td :
        /\ DOMAIN td[tw].DiscordChannels # {}
        /\ \A g \in DOMAIN td[tw].DiscordChannels : Len(td[tw].DiscordChannels[g]) > 0

\* C16, first half: once every command has returned, the snapshot holds the
\* subscriptions the registry holds.
C16_NoLag ==
    (mainPc = "Running" /\ cmd = NoCmd /\ disk # NotExist) =>
        Subs(readGobFromDisk(disk)) = Subs(twitchData)

\* C16: the first half, and no snapshot ever written shows a registry in the
\* middle of a mutation.
C16_SnapshotFollowsRegistry ==
    /\ C16_NoLag
    /\ disk # NotExist => Settled(readGobFromDisk(disk))

\* C17: a cycle that finds a login not live stamps its end time with the
\* current time only if the end time is zero and leaves it alone otherwise;
\* a cycle that finds it live zeroes the end time and sets the start time to
\* the StartedAt of the report.
C17_Step ==
    lastOp'.op = "Monitor" /\ lastOp'.res \in {"ok", "error"} =>
        \E live \in StreamReports(twitchData, now) :
            \A tw \in DOMAIN twitchData :
                LET old == twitchData[tw]
                    new == twitchData'[tw]
                IN IF tw \in DOMAIN live
                   THEN new.StartTime = live[tw] /\ new.EndTime = ZeroTime
                   ELSE /\ new.StartTime = ZeroTime
                        /\ old.EndTime # ZeroTime => new.EndTime = old.EndTime
                        /\ old.EndTime = ZeroTime => new.EndTime = now

C17_EndTimeStampedOnce == [][C17_Step]_vars

\* A cycle has just found alice not live and kept the end time an earlier
\* cycle stamped.
C17_Witness ==
    /\ lastOp = Op("Monitor", "ok")
    /\ "alice" \in DOMAIN twitchData
    /\ twitchData["alice"].StartTime = ZeroTime
    /\ twitchData["alice"].EndTime # ZeroTime
    /\ twitchData["alice"].EndTime < now

\* C18: every message a poll cycle sends goes to the chat channel of the
\* subscription whose flag the cycle flipped for it, so each flipped
\* subscription gets one message and no chat channel gets another's.
C18_Step ==
    lastOp'.op = "Monitor" =>
        /\ \A n \in sent' : n.to = n.d
        /\ \A k \in Subs(twitchData) :
              FlagOf(twitchData, k[1], k[2], k[3]) # FlagOf(twitchData', k[1], k[2], k[3])
                  => \E n \in sent' : <<n.tw, n.g, n.to>> = k

C18_DeliveredToTrigger == [][C18_Step]_vars

\* The subscriptions of tw in available guilds that a cycle confirming tw
\* live, after a time offline longer than the threshold, leaves without a
\* "now live" message.
Unannounced(tw) ==
    {k \in SubsOfLogin(twitchData, tw) :
        /\ StatusTrue(guildStatus, k[2])
        /\ ~\E n \in sent' : n.kind = "live" /\ <<n.tw, n.g, n.to>> = k}

\* C19: when a login whose last stream ended more than the threshold before
\* a new one began is found live for longer than the threshold, the cycle
\* that finds it so sends a "now live" notification to every subscription of
\* it whose guild is available.
C19_Step ==
    lastOp'.op = "Monitor" =>
        \A tw \in DOMAIN twitchData :
            (/\ twitchData[tw].EndTime # ZeroTime
             /\ twitchData'[tw].StartTime # ZeroTime
             /\ twitchData'[tw].StartTime - twitchData[tw].EndTime > TwitchStateChangeTime
             /\ now - twitchData'[tw].StartTime > TwitchStateChangeTime)
                => Unannounced(tw) = {}

C19_EveryLiveSessionAnnounced == [][C19_Step]_vars


\* The messages of kind kind a step sends to the subscription k.
SentTo(k, kind) == {n \in sent' : n.kind = kind /\ <<n.tw, n.g, n.to>> = k}

\* C20: the notifications sent to a subscription since its registration
\* alternate, beginning with "now live": a cycle sends a subscription at most
\* one message, a "now live" one only if the last message sent to it was not
\* "now live", and a "now offline" one only if the last message sent to it
\* was "now live".
C20_Step ==
    lastOp'.op = "Monitor" =>
        \A k \in Subs(twitchData) :
            /\ Cardinality(SentTo(k, "live") \cup SentTo(k, "offline")) <= 1
            /\ SentTo(k, "live") # {} =>
                   ~(k \in DOMAIN lastSent /\ lastSent[k] = "live")
            /\ SentTo(k, "offline") # {} =>
                   (k \in DOMAIN lastSent /\ lastSent[k] = "live")

C20_NotificationsAlternate == [][C20_Step]_vars


\* Exactly one of the two timestamps of a streaming channel is set.
OneTimeSet(tc) == (tc.StartTime # ZeroTime) # (tc.EndTime # ZeroTime)

\* C21: no step leaves a registered streaming channel with both its start
\* time and its end time set; a poll cycle that ran the timestamp update
\* leaves every channel it found registered with exactly one of the two set,
\* and a channel that has exactly one set keeps exactly one set for as long
\* as the process holds it; so the condition of the live branch and that of
\* the offline branch never hold together for one channel.
C21_Step ==
    /\ \A tw \in DOMAIN twitchData' :
           ~(twitchData'[tw].StartTime # ZeroTime /\ twitchData'[tw].EndTime # ZeroTime)
    /\ (lastOp'.op = "Monitor" /\ lastOp'.res \in {"ok", "error"}) =>
           \A tw \in DOMAIN twitchData : OneTimeSet(twitchData'[tw])
    /\ lastOp'.op # "Start" =>
           \A tw \in DOMAIN twitchData \cap DOMAIN twitchData' :
               OneTimeSet(twitchData[tw]) => OneTimeSet(twitchData'[tw])
    /\ lastOp'.op = "Monitor" =>
           \A tw \in DOMAIN twitchData' :
               ~(/\ twitchData'[tw].StartTime # ZeroTime
                 /\ now - twitchData'[tw].StartTime > TwitchStateChangeTime
                 /\ twitchData'[tw].EndTime # ZeroTime
                 /\ now - twitchData'[tw].EndTime > TwitchStateChangeTime)

C21_OneTimestampSet == [][C21_Step]_vars

\* A cycle has just found alice live again after an offline run that was
\* announced: the update set the start time and cleared the end time.
C21_Witness ==
    /\ lastOp = Op("Monitor", "ok")
    /\ "alice" \in DOMAIN twitchData
    /\ twitchData["alice"].StartTime # ZeroTime
    /\ twitchData["alice"].EndTime = ZeroTime
    /\ \E k \in DOMAIN lastSent : k[1] = "alice" /\ lastSent[k] = "offline"

=============================================================================
